---- MODULE Spec2Model ----
(***************************************************************************)
(* react-router-action: the dispatcher matchAction and the result accessor *)
(* actionResult of src/index.ts.                                           *)
(*                                                                         *)
(* JavaScript values are encoded as follows.  An object is a function from *)
(* its own keys to values; a key that is absent is not in the DOMAIN.  A   *)
(* value that may be undefined is wrapped: Undefined is <<>> and a defined *)
(* value v is <<v>>, so a key can be present and hold undefined.           *)
(***************************************************************************)
EXTENDS Integers, Sequences, FiniteSets, TLC

\* longest form body (number of name/value entries) a request carries
MaxFields == 2
\* longest error list of one field handed to actionResult
MaxErrors == 2

Undefined == <<>>
Some(v) == <<v>>

\* o.k : undefined when o has no such key
Prop(o, k) == IF k \in DOMAIN o THEN o[k] ELSE Undefined

\* delete o.k
Delete(o, k) == [x \in DOMAIN o \ {k} |-> o[x]]

\* {}
EmptyObject == [x \in {} |-> Undefined]

\* { [k]: v }
Single(k, v) == [x \in {k} |-> v]

\* the properties every plain object inherits from Object.prototype
ObjectPrototypeKeys == {"toString"}

\* k in o : own or inherited
In(k, o) == k \in DOMAIN o \/ k \in ObjectPrototypeKeys

----------------------------------------------------------------------------
(* Form data                                                               *)

\* a form entry whose value is a File, not a string
File == "[object File]"

FieldNames == {"_action", "data"}
ActionValues == {"test", "ping", "login", "cached", "toString", "bogus", File}
DataValues == {"1", "one"}
Entries ==
  [name : {"_action"}, value : ActionValues] \cup [name : {"data"}, value : DataValues]

SeqsUpTo(S, n) == UNION {[1..k -> S] : k \in 0..n}
Forms == SeqsUpTo(Entries, MaxFields)

\* a body that is not form-encoded: request.formData() rejects
Malformed == <<[name |-> "", value |-> "malformed"]>>
Bodies == Forms \cup {Malformed}

Names(fd) == {fd[i].name : i \in DOMAIN fd}
Last(fd, k) == fd[CHOOSE i \in DOMAIN fd : fd[i].name = k /\ \A j \in DOMAIN fd : fd[j].name = k => j <= i].value
First(fd, k) == fd[CHOOSE i \in DOMAIN fd : fd[i].name = k /\ \A j \in DOMAIN fd : fd[j].name = k => j >= i].value

\* Object.fromEntries(formData): a later entry overwrites an earlier one
FromEntries(fd) == [k \in Names(fd) |-> Some(Last(fd, k))]

\* formData.get(name): the first value, null when there is none
FormDataGet(fd, k) == IF k \in Names(fd) THEN Some(First(fd, k)) ELSE Undefined

TypeofString(v) == v # Undefined /\ v[1] # File

----------------------------------------------------------------------------
(* The validator (zod), as far as matchAction uses it                      *)

\* Number(raw) of z.coerce.number: undefined here stands for NaN
ToNumber(raw) ==
  IF raw = Undefined THEN Undefined
  ELSE CASE raw[1] = "" -> Some(0)
         [] raw[1] = "0" -> Some(0)
         [] raw[1] = "1" -> Some(1)
         [] raw[1] = "2" -> Some(2)
         [] OTHER -> Undefined

\* n.toString()
NumberToString(n) == CASE n = 0 -> "0" [] n = 1 -> "1" [] n = 2 -> "2"

\* z.coerce.number({ invalid_type_error })
CoerceNumber(msg) == [kind |-> "coerce.number", invalid_type_error |-> msg]

\* z.literal(value)
Literal(v) == [kind |-> "literal", value |-> v]

\* one field of a z.object: the parsed value or the issue's message
ParseField(type, raw) ==
  IF type.kind = "coerce.number"
  THEN IF ToNumber(raw) = Undefined
       THEN [ok |-> FALSE, message |-> type.invalid_type_error]
       ELSE [ok |-> TRUE, value |-> ToNumber(raw)[1]]
  ELSE IF raw = Some(type.value)
       THEN [ok |-> TRUE, value |-> type.value]
       ELSE [ok |-> FALSE, message |-> "Invalid literal value"]

\* the order in which a shape's keys are parsed and reported
KeyOrder == <<"data", "_action">>
IsShapeKey(shape, k) == k \in DOMAIN shape
ShapeKeys(shape) == SelectSeq(KeyOrder, LAMBDA k : IsShapeKey(shape, k))

\* ZodObject parse: every key of the shape is parsed, keys outside the shape
\* are stripped, one issue per failing key
ParseObject(shape, input) ==
  LET r == [k \in DOMAIN shape |-> ParseField(shape[k], Prop(input, k))]
      bad == SelectSeq(ShapeKeys(shape), LAMBDA k : ~r[k].ok)
  IN IF bad = <<>>
     THEN [success |-> TRUE, data |-> [k \in DOMAIN shape |-> r[k].value]]
     ELSE [success |-> FALSE,
           error |-> [i \in DOMAIN bad |-> [path |-> <<bad[i]>>, message |-> r[bad[i]].message]]]

\* schema.extend({ _action: z.literal(name) })
Extend(shape, name) ==
  [k \in DOMAIN shape \cup {"_action"} |-> IF k = "_action" THEN Literal(name) ELSE shape[k]]

\* z.discriminatedUnion("_action", options).spa(input), options keyed by name
DiscriminatedUnion(options, input) ==
  LET d == Prop(input, "_action")
  IN IF d # Undefined /\ d[1] \in DOMAIN options
     THEN ParseObject(options[d[1]], input)
     ELSE [success |-> FALSE,
           error |-> <<[path |-> <<"_action">>, message |-> "Invalid discriminator value"]>>]

\* error.flatten().fieldErrors: the messages of each first path element
Flatten(error) ==
  [k \in {error[i].path[1] : i \in DOMAIN error} |->
     LET mine == SelectSeq(error, LAMBDA e : e.path[1] = k)
     IN Some([i \in DOMAIN mine |-> mine[i].message])]

----------------------------------------------------------------------------
(* Action definitions handed to matchAction                                *)

\* ctx.data(data, init)
CtxData(d, init) == [success |-> Some(TRUE), data |-> d, init |-> init]

\* ctx.error(error, init, fieldErrors)
CtxError(e, init, fe) == [success |-> Some(FALSE), error |-> e, fieldErrors |-> fe, init |-> init]

\* redirect("/login"), thrown by a handler
Redirect == [status |-> 302, location |-> "/login"]

\* an Outcome object a handler keeps and returns on every call
StoredOutcome == [success |-> Some(TRUE), data |-> Some("cached"), init |-> Some(201)]

ActionNames == {"test", "ping", "login", "cached"}

\* createAction({ schema, handler }) of each action
createAction(name) ==
  CASE name = "test" -> [schema |-> [k \in {"data"} |-> CoerceNumber("expected number")], handler |-> "test"]
    [] name = "ping" -> [schema |-> EmptyObject, handler |-> "ping"]
    [] name = "login" -> [schema |-> EmptyObject, handler |-> "login"]
    [] name = "cached" -> [schema |-> EmptyObject, handler |-> "cached"]

\* the registries: every set of the actions above, the empty one included
Registries == {[n \in S |-> createAction(n)] : S \in SUBSET ActionNames}

\* handler(ctx, args): what it returns (and whether the object is the stored
\* one) or what it throws
Handler(h, input, a, st) ==
  CASE h = "test" ->
         IF NumberToString(input.data) # a.params.id
         THEN [throws |-> FALSE, ref |-> "fresh",
               obj |-> CtxError(Some("Invalid data"), Some(403),
                                Some([k \in {"data"} |-> Some(<<"data and id param must match">>)]))]
         ELSE [throws |-> FALSE, ref |-> "fresh",
               obj |-> CtxData(Some([id |-> a.params.id, data |-> input.data]), Some(200))]
    [] h = "ping" -> [throws |-> FALSE, ref |-> "fresh", obj |-> CtxData(Some("pong"), Undefined)]
    [] h = "login" -> [throws |-> TRUE, value |-> Redirect]
    [] h = "cached" -> [throws |-> FALSE, ref |-> "stored", obj |-> st]

----------------------------------------------------------------------------
(* matchAction                                                             *)

VARIABLES
  actions,    \* the registry passed to matchAction
  stored,     \* the Outcome object the "cached" handler keeps
  args,       \* the route args of the dispatch: request and params
  cloned,     \* request.clone(): its body and whether it has been read
  pc,         \* where the dispatch stands
  formData,   \* the parsed body
  result,     \* the validator's result
  output,     \* what the handler returned
  response,   \* what matchAction returned
  thrown,     \* what matchAction threw
  calls,      \* the handler invocations of this dispatch
  steps,      \* the steps of this dispatch, in order
  accIn,      \* the arguments of actionResult
  accOut,     \* what actionResult returned
  memo        \* an earlier dispatch the caller remembers: its args and response

dispatchVars == <<actions, stored, args, cloned, pc, formData, result, output, response, thrown, calls, steps>>
accVars == <<accIn, accOut>>
vars == <<actions, stored, args, cloned, pc, formData, result, output, response, thrown, calls, steps, accIn, accOut, memo>>

ParamIds == {"1", "2"}

\* data(value, init) of react-router: the value with its status
data(value, init) ==
  [data |-> value, init |-> IF init = Undefined THEN Undefined ELSE Some([status |-> init[1]])]

\* NoEntries testing for fewer than two entries
NoEntries_One(acts) == Cardinality(DOMAIN acts) <= 1

\* lines 112-113: !actionsEntries.length
NoEntries(acts) == DOMAIN acts = {}

\* lines 117-120: every schema extended by its name, united on "_action"
UnionSchema(acts) == [n \in DOMAIN acts |-> Extend(acts[n].schema, n)]

\* SuccessResponse with the init left on the output and a fixed status
SuccessResponse_KeepInit(action, out) ==
  [data |-> Single(action, out), init |-> Some([status |-> 200])]

\* lines 138-145: the handler's init becomes the response's, and leaves the output
SuccessResponse(action, out) ==
  data(Single(action, Delete(out, "init")), Prop(out, "init"))

\* FailureResponse without the status
FailureResponse_NoStatus(fd, res, acts) ==
  LET action == FormDataGet(fd, "_action")
  IN IF TypeofString(action) /\ In(action[1], acts)
     THEN [data |-> Single(action[1], [success |-> Some(FALSE), fieldErrors |-> Some(Flatten(res.error))]),
           init |-> Undefined]
     ELSE [data |-> EmptyObject, init |-> Undefined]

\* lines 148-160: the response to a body that failed validation
FailureResponse(fd, res, acts) ==
  LET action == FormDataGet(fd, "_action")
  IN IF TypeofString(action) /\ In(action[1], acts)
     THEN data(Single(action[1], [success |-> Some(FALSE), fieldErrors |-> Some(Flatten(res.error))]),
               Some(400))
     ELSE data(EmptyObject, Some(400))

NoRequest == [body |-> <<>>, bodyUsed |-> FALSE]

Init ==
  /\ actions \in Registries
  /\ stored = StoredOutcome
  /\ args = [request |-> NoRequest, params |-> [id |-> "1"]]
  /\ cloned = Undefined
  /\ pc = "idle"
  /\ formData = Undefined
  /\ result = Undefined
  /\ output = Undefined
  /\ response = Undefined
  /\ thrown = Undefined
  /\ calls = <<>>
  /\ steps = <<>>
  /\ accIn = Undefined
  /\ accOut = Undefined
  /\ memo = Undefined

\* matchAction(args, actions) is called: lines 112-121, up to the first await
Call(body, id) ==
  /\ pc = "idle"
  /\ args' = [request |-> [body |-> body, bodyUsed |-> FALSE], params |-> [id |-> id]]
  /\ formData' = Undefined
  /\ result' = Undefined
  /\ output' = Undefined
  /\ thrown' = Undefined
  /\ calls' = <<>>
  /\ IF NoEntries(actions)
     THEN /\ response' = Some(data(EmptyObject, Some(400)))
          /\ cloned' = Undefined
          /\ steps' = <<"return">>
          /\ pc' = "returned"
     ELSE /\ response' = Undefined
          /\ cloned' = Some([body |-> body, bodyUsed |-> FALSE])
          /\ steps' = <<>>
          /\ pc' = "reading"
  /\ UNCHANGED <<actions, stored, accIn, accOut, memo>>

\* line 121: the clone's body is read as form data
ReadBody ==
  /\ pc = "reading"
  /\ cloned' = Some([cloned[1] EXCEPT !.bodyUsed = TRUE])
  /\ steps' = Append(steps, "read")
  /\ IF cloned[1].body = Malformed
     THEN /\ thrown' = Some("TypeError")
          /\ pc' = "thrown"
          /\ UNCHANGED formData
     ELSE /\ formData' = Some(cloned[1].body)
          /\ pc' = "validating"
          /\ UNCHANGED thrown
  /\ UNCHANGED <<actions, stored, args, result, output, response, calls, accIn, accOut, memo>>

\* lines 122-124 and 148-160: the safe parse, and the response when it fails
Validate ==
  /\ pc = "validating"
  /\ LET res == DiscriminatedUnion(UnionSchema(actions), FromEntries(formData[1]))
     IN /\ result' = Some(res)
        /\ IF res.success
           THEN /\ steps' = Append(steps, "validate")
                /\ pc' = "handling"
                /\ UNCHANGED response
           ELSE /\ steps' = steps \o <<"validate", "return">>
                /\ response' = Some(FailureResponse(formData[1], res, actions))
                /\ pc' = "returned"
  /\ UNCHANGED <<actions, stored, args, cloned, formData, output, thrown, calls, accIn, accOut, memo>>

\* InvokeHandler with the handler's throw caught and answered
InvokeHandler_Catching ==
  /\ pc = "handling"
  /\ LET action == result[1].data["_action"]
         ret == Handler(actions[action].handler, result[1].data, args, stored)
     IN /\ calls' = Append(calls, [action |-> action, input |-> result[1].data, args |-> args])
        /\ IF ret.throws
           THEN /\ response' = Some(data(EmptyObject, Some(500)))
                /\ steps' = steps \o <<"invoke", "return">>
                /\ pc' = "returned"
                /\ UNCHANGED output
           ELSE /\ output' = Some([ref |-> ret.ref, obj |-> ret.obj])
                /\ steps' = Append(steps, "invoke")
                /\ pc' = "awaiting"
                /\ UNCHANGED response
  /\ UNCHANGED <<actions, stored, args, cloned, formData, result, thrown, accIn, accOut, memo>>

\* InvokeHandler calling the handler a second time for the awaited output
InvokeHandler_Twice ==
  /\ pc = "handling"
  /\ LET action == result[1].data["_action"]
         ret == Handler(actions[action].handler, result[1].data, args, stored)
         call == [action |-> action, input |-> result[1].data, args |-> args]
     IN /\ calls' = calls \o <<call, call>>
        /\ steps' = steps \o <<"invoke", "invoke">>
        /\ IF ret.throws
           THEN /\ thrown' = Some(ret.value)
                /\ pc' = "thrown"
                /\ UNCHANGED output
           ELSE /\ output' = Some([ref |-> ret.ref, obj |-> ret.obj])
                /\ pc' = "awaiting"
                /\ UNCHANGED thrown
  /\ UNCHANGED <<actions, stored, args, cloned, formData, result, response, accIn, accOut, memo>>

\* lines 125-137: the handler of the parsed "_action" is called
InvokeHandler ==
  /\ pc = "handling"
  /\ LET action == result[1].data["_action"]
         ret == Handler(actions[action].handler, result[1].data, args, stored)
     IN /\ calls' = Append(calls, [action |-> action, input |-> result[1].data, args |-> args])
        /\ steps' = Append(steps, "invoke")
        /\ IF ret.throws
           THEN /\ thrown' = Some(ret.value)
                /\ pc' = "thrown"
                /\ UNCHANGED output
           ELSE /\ output' = Some([ref |-> ret.ref, obj |-> ret.obj])
                /\ pc' = "awaiting"
                /\ UNCHANGED thrown
  /\ UNCHANGED <<actions, stored, args, cloned, formData, result, response, accIn, accOut, memo>>

\* lines 138-145: the awaited output is stripped of its init and returned
Complete ==
  /\ pc = "awaiting"
  /\ response' = Some(SuccessResponse(result[1].data["_action"], output[1].obj))
  /\ stored' = IF output[1].ref = "stored" THEN Delete(output[1].obj, "init") ELSE stored
  /\ steps' = Append(steps, "return")
  /\ pc' = "returned"
  /\ UNCHANGED <<actions, args, cloned, formData, result, output, thrown, calls, accIn, accOut, memo>>

\* the caller has the response or the thrown value: the dispatch is over and
\* its locals are gone; what the handlers keep stays
Settle ==
  /\ pc \in {"returned", "thrown"}
  /\ pc' = "idle"
  /\ args' = [request |-> NoRequest, params |-> [id |-> "1"]]
  /\ cloned' = Undefined
  /\ formData' = Undefined
  /\ result' = Undefined
  /\ output' = Undefined
  /\ response' = Undefined
  /\ thrown' = Undefined
  /\ calls' = <<>>
  /\ steps' = <<>>
  /\ UNCHANGED <<actions, stored, accIn, accOut, memo>>

Next ==
  \/ \E body \in Bodies, id \in ParamIds : Call(body, id)
  \/ ReadBody
  \/ Validate
  \/ InvokeHandler
  \/ Complete
  \/ Settle

Spec == Init /\ [][Next]_vars

\* the caller keeps the args and the response of a dispatch that returned, to
\* compare a later dispatch with it
Remember ==
  /\ pc = "returned"
  /\ memo = Undefined
  /\ memo' = Some([args |-> args, response |-> response[1]])
  /\ UNCHANGED <<actions, stored, args, cloned, pc, formData, result, output, response, thrown, calls, steps,
                 accIn, accOut>>

\* the bodies of the repeated dispatches: forms of at most one entry
PairForms == {<<>>} \cup {<<e>> : e \in Entries}

\* dispatches one after another against the same registry, one of them remembered
PairNext ==
  \/ \E body \in PairForms, id \in ParamIds : Call(body, id)
  \/ ReadBody
  \/ Validate
  \/ InvokeHandler
  \/ Complete
  \/ Settle
  \/ Remember

PairSpec == Init /\ [][PairNext]_vars

----------------------------------------------------------------------------
(* Properties of matchAction                                               *)

Body == args.request.body
Submitted == pc # "idle" /\ Body # Malformed
Ended == pc \in {"returned", "thrown"}

\* the body's "_action" names A: it has the field and every value of it is A
NamesAction(body, A) ==
  /\ "_action" \in Names(body)
  /\ \A i \in DOMAIN body : body[i].name = "_action" => body[i].value = A

\* the body's other fields satisfy A's own schema
Satisfies(body, A) == ParseObject(actions[A].schema, FromEntries(body)).success

\* the status a handler's init turns into
StatusOf(init) == IF init = Undefined THEN Undefined ELSE Some([status |-> init[1]])

\* C1: when the submission names a registered action A and satisfies A's
\* schema, the returned response holds exactly the key A, its value is the
\* Outcome the handler returned (success, data, error and fieldErrors as
\* returned, init removed), and its status is the init the handler supplied,
\* absent when the handler supplied none.
C1_ValidSubmissionReturnsHandlerOutcome ==
  \A A \in DOMAIN actions :
    (pc = "returned" /\ Submitted /\ NamesAction(Body, A) /\ Satisfies(Body, A)) =>
      /\ output # Undefined
      /\ Len(calls) = 1 /\ calls[1].action = A
      /\ DOMAIN response[1].data = {A}
      /\ response[1].data[A] = [k \in DOMAIN output[1].obj \ {"init"} |-> output[1].obj[k]]
      /\ response[1].init = StatusOf(Prop(output[1].obj, "init"))
      /\ (A = "ping" => /\ response[1].data[A] = [success |-> Some(TRUE), data |-> Some("pong")]
                        /\ response[1].init = Undefined)
      /\ (A = "test" /\ args.params.id = "1" =>
            /\ response[1].data[A] = [success |-> Some(TRUE), data |-> Some([id |-> "1", data |-> 1])]
            /\ response[1].init = Some([status |-> 200]))
      /\ (A = "test" /\ args.params.id = "2" =>
            /\ response[1].data[A] =
                 [success |-> Some(FALSE), error |-> Some("Invalid data"),
                  fieldErrors |-> Some([k \in {"data"} |-> Some(<<"data and id param must match">>)])]
            /\ response[1].init = Some([status |-> 403]))

\* C1 witness: a valid "test" submission got the handler's error Outcome at 403,
\* and a valid "ping" submission its data Outcome with no status
C1_Witness_ErrorOutcome ==
  /\ pc = "returned" /\ Submitted /\ "test" \in DOMAIN actions
  /\ NamesAction(Body, "test") /\ Satisfies(Body, "test")
  /\ response[1].data["test"].success = Some(FALSE)
  /\ response[1].init = Some([status |-> 403])

NamesNoAction(body) ==
  \A i \in DOMAIN body :
    body[i].name = "_action" => body[i].value # File /\ body[i].value \notin DOMAIN actions

\* C3: for a non-empty registry, a submission whose "_action" is missing or
\* is a string that is not one of the registry's names is answered by an
\* empty response at status 400, and no handler is invoked.
C3_UnknownActionReturnsEmpty ==
  (Ended /\ Submitted /\ DOMAIN actions # {} /\ NamesNoAction(Body)) =>
    /\ pc = "returned"
    /\ response[1].data = EmptyObject
    /\ response[1].init = Some([status |-> 400])
    /\ calls = <<>>

\* C4: every returned response has zero or one keys; zero keys only when the
\* registry is empty or no registered name was submitted; one key is a
\* registered name whose Outcome has no init.
C4_ResponseShape ==
  (pc = "returned") =>
    LET keys == DOMAIN response[1].data
    IN /\ Cardinality(keys) <= 1
       /\ (keys = {} =>
             \/ DOMAIN actions = {}
             \/ \A i \in DOMAIN Body : Body[i].name = "_action" => Body[i].value \notin DOMAIN actions)
       /\ \A k \in keys : k \in DOMAIN actions /\ "init" \notin DOMAIN response[1].data[k]

\* C5: an empty registry is answered by an empty response at 400 before the
\* body is read and without a handler; a non-empty registry never answers
\* before the body has been read.
C5_EmptyRegistryShortCircuits ==
  /\ (DOMAIN actions = {} /\ pc # "idle") =>
       /\ pc = "returned"
       /\ response = Some([data |-> EmptyObject, init |-> Some([status |-> 400])])
       /\ cloned = Undefined
       /\ steps = <<"return">>
       /\ calls = <<>>
  /\ (DOMAIN actions # {} /\ response # Undefined) =>
       /\ steps[1] = "read"
       /\ cloned # Undefined /\ cloned[1].bodyUsed

\* C5 witness: an empty registry answered a submission that names "test"
C5_Witness_EmptyRegistry ==
  /\ DOMAIN actions = {} /\ pc = "returned"
  /\ Body = <<[name |-> "_action", value |-> "test"], [name |-> "data", value |-> "1"]>>

\* C6: the input passed to the handler holds the fields of the action's schema
\* and not "_action".
C6_InputWithoutDiscriminator ==
  \A i \in DOMAIN calls : DOMAIN calls[i].input = DOMAIN actions[calls[i].action].schema

\* C7: a value thrown by the handler ends the dispatch as that very value,
\* and no response is produced.
C7_ThrownValuePropagates ==
  \A i \in DOMAIN calls :
    Handler(actions[calls[i].action].handler, calls[i].input, calls[i].args, stored).throws =>
      /\ pc = "thrown"
      /\ thrown = Some(Handler(actions[calls[i].action].handler, calls[i].input, calls[i].args, stored).value)
      /\ thrown = Some(Redirect)
      /\ response = Undefined

\* C7 witness: the "login" handler was called and its redirect came out
C7_Witness_Redirect ==
  /\ pc = "thrown" /\ Len(calls) = 1 /\ calls[1].action = "login" /\ thrown = Some(Redirect)

\* C10: a dispatch in progress changes nothing but the clone it reads: the
\* original request's body stays unread, and the registry, the route args and
\* the objects of the handlers stay as they were.
C10_NoSideEffect ==
  [][~Ended /\ pc # "idle" =>
       /\ ~args'.request.bodyUsed
       /\ args' = args
       /\ actions' = actions
       /\ stored' = stored]_vars

\* C11: when the body repeats "_action", its last value decides all three:
\* the schema that is validated, the handler that is invoked when validation
\* succeeds, and the key under which a validation failure is reported.
C11_LastActionDecides ==
  (Ended /\ Submitted /\ result # Undefined /\ "_action" \in Names(Body)
     /\ Last(Body, "_action") \in DOMAIN actions) =>
    LET L == Last(Body, "_action")
    IN /\ result[1] = ParseObject(Extend(actions[L].schema, L), FromEntries(Body))
       /\ result[1].success => (Len(calls) = 1 /\ calls[1].action = L)
       /\ ~result[1].success => (pc = "returned" /\ DOMAIN response[1].data = {L})

\* C12: a dispatch reads the body, validates, invokes the handler and returns,
\* in that order; the handler of the validated "_action" is invoked exactly
\* once when validation succeeds and never when it fails or the registry is
\* empty; the response comes only after the invocation has produced its output.
C12_OneHandlerCallInOrder ==
  /\ Len(calls) <= 1
  /\ calls # <<>> =>
       /\ result # Undefined /\ result[1].success
       /\ calls[1].action = result[1].data["_action"]
       /\ SubSeq(steps, 1, 3) = <<"read", "validate", "invoke">>
  /\ (Ended /\ result # Undefined /\ result[1].success) => Len(calls) = 1
  /\ (result # Undefined /\ ~result[1].success) => calls = <<>>
  /\ NoEntries(actions) => calls = <<>>
  /\ pc = "returned" =>
       \/ NoEntries(actions) /\ steps = <<"return">>
       \/ ~NoEntries(actions) /\ ~result[1].success /\ steps = <<"read", "validate", "return">>
       \/ /\ ~NoEntries(actions) /\ result[1].success /\ output # Undefined
          /\ steps = <<"read", "validate", "invoke", "return">>
  /\ pc = "thrown" =>
       \/ steps = <<"read">>
       \/ steps = <<"read", "validate", "invoke">>

\* C12 witness: a valid "test" submission went through all four steps with
\* one call of the "test" handler
C12_Witness_FourSteps ==
  /\ pc = "returned" /\ steps = <<"read", "validate", "invoke", "return">>
  /\ Len(calls) = 1 /\ calls[1].action = "test"

\* C13: a dispatch returns the same response data and the same status as any
\* earlier dispatch against the same registry with equal form fields and equal
\* route args, whether the handler builds its Outcome anew or returns a stored
\* object.
C13_EqualDispatchesEqualResponses ==
  (pc = "returned" /\ memo # Undefined /\ memo[1].args = args) =>
    /\ response[1].data = memo[1].response.data
    /\ response[1].init = memo[1].response.init

----------------------------------------------------------------------------
(* actionResult                                                            *)

\* if (error): a string is truthy unless it is empty
Truthy(v) == v # Undefined /\ v[1] # ""

\* errors?.[0]
FirstError(errors) ==
  IF errors = Undefined \/ errors[1] = <<>> THEN Undefined ELSE Some(errors[1][1])

\* lines 210-218: each field's first error, when there is one
CollapseFirst(fieldErrors) ==
  [f \in {g \in DOMAIN fieldErrors : Truthy(FirstError(fieldErrors[g]))} |->
     FirstError(fieldErrors[f])[1]]

\* result?.[action]
Entry(res, action) ==
  IF res = Undefined \/ action \notin DOMAIN res[1] THEN Undefined ELSE Some(res[1][action])

\* options?.errors
ErrorsMode(options) == IF options = Undefined THEN Undefined ELSE Prop(options[1], "errors")

\* actionResult testing success for falsiness instead of undefined
actionResult_Falsy(res, action, options) ==
  LET entry == Entry(res, action)
      success == IF entry = Undefined THEN Undefined ELSE Prop(entry[1], "success")
  IN IF success = Undefined \/ ~success[1]
     THEN [success |-> Undefined]
     ELSE [success |-> Some(TRUE), data |-> Prop(entry[1], "data")]

\* lines 197-220
actionResult(res, action, options) ==
  LET entry == Entry(res, action)
      success == IF entry = Undefined THEN Undefined ELSE Prop(entry[1], "success")
  IN IF success = Undefined
     THEN [success |-> Undefined]
     ELSE IF success[1]
          THEN [success |-> Some(TRUE), data |-> Prop(entry[1], "data")]
          ELSE LET fieldErrors == Prop(entry[1], "fieldErrors")
               IN [success |-> Some(FALSE),
                   error |-> Prop(entry[1], "error"),
                   fieldErrors |-> IF fieldErrors # Undefined /\ ErrorsMode(options) # Some("all")
                                   THEN Some(CollapseFirst(fieldErrors[1]))
                                   ELSE fieldErrors]

\* the arguments actionResult is applied to
ErrorMessages == {"", "expected number"}
ErrorLists == {Undefined} \cup {Some(l) : l \in SeqsUpTo(ErrorMessages, MaxErrors)}
FieldErrorMaps == UNION {[K -> ErrorLists] : K \in SUBSET {"data", "value"}}
Restrict(o, K) == [k \in K |-> o[k]]
OutcomeRecords ==
  [success : {Undefined, Some(TRUE), Some(FALSE)}, data : {Some("pong")},
   error : {Some("Invalid data")}, fieldErrors : {Some(F) : F \in FieldErrorMaps}]
Outcomes == {Restrict(o, K) : o \in OutcomeRecords, K \in SUBSET {"success", "data", "error", "fieldErrors"}}
Results == {Undefined, Some(EmptyObject)} \cup {Some(Single("test", o)) : o \in Outcomes}
Options ==
  {Undefined, Some(EmptyObject), Some([errors |-> Undefined]), Some([errors |-> Some("first")]),
   Some([errors |-> Some("all")])}

AccInit ==
  /\ actions = [n \in {"test", "ping"} |-> createAction(n)]
  /\ stored = StoredOutcome
  /\ args = [request |-> NoRequest, params |-> [id |-> "1"]]
  /\ cloned = Undefined
  /\ pc = "idle"
  /\ formData = Undefined
  /\ result = Undefined
  /\ output = Undefined
  /\ response = Undefined
  /\ thrown = Undefined
  /\ calls = <<>>
  /\ steps = <<>>
  /\ accIn \in [result : Results, action : {"test", "ping"}, options : Options]
  /\ accOut = Undefined
  /\ memo = Undefined

\* actionResult(result, action, options) is called
ApplyActionResult ==
  /\ accOut = Undefined
  /\ accOut' = Some(actionResult(accIn.result, accIn.action, accIn.options))
  /\ UNCHANGED <<accIn, actions, stored, args, cloned, pc, formData, result, output, response, thrown, calls, steps, memo>>

AccNext == ApplyActionResult

AccSpec == AccInit /\ [][AccNext]_vars

\* the entry actionResult looks at, and its fields
AccEntry == Entry(accIn.result, accIn.action)
AccSuccess == IF AccEntry = Undefined THEN Undefined ELSE Prop(AccEntry[1], "success")
AccFailed == AccSuccess = Some(FALSE)

\* C8: actionResult returns exactly { success: undefined } when the result is
\* undefined, has no entry for the action, or the entry's success is
\* undefined; { success: true, data } with the entry's data and nothing else
\* when the entry's success is true; otherwise success false with the entry's
\* error unchanged.
C8_ThreeWayClassification ==
  accOut # Undefined =>
    LET out == accOut[1]
    IN /\ (accIn.result = Undefined \/ accIn.action \notin DOMAIN accIn.result[1] \/ AccSuccess = Undefined)
            => (DOMAIN out = {"success"} /\ out.success = Undefined)
       /\ AccSuccess = Some(TRUE)
            => /\ DOMAIN out = {"success", "data"}
               /\ out.success = Some(TRUE)
               /\ out.data = Prop(AccEntry[1], "data")
       /\ AccSuccess = Some(FALSE)
            => /\ out.success = Some(FALSE)
               /\ out.error = Prop(AccEntry[1], "error")
               /\ "data" \notin DOMAIN out

\* C8 witnesses: each of the three classes was returned
C8_Witness_Success ==
  /\ accOut # Undefined /\ AccSuccess = Some(TRUE) /\ accOut[1].data = Some("pong")

\* C9: for a failed entry with field errors F, "all" mode returns F itself and
\* "first" mode (the default) returns the map from each field of F whose list
\* is non-empty to the first element of that list, omitting only the fields
\* whose list is empty or absent.
C9_FirstModeIsFirstOfAll ==
  (accOut # Undefined /\ AccFailed /\ Prop(AccEntry[1], "fieldErrors") # Undefined) =>
    LET F == AccEntry[1].fieldErrors[1]
        nonEmpty == {f \in DOMAIN F : F[f] # Undefined /\ F[f][1] # <<>>}
    IN IF ErrorsMode(accIn.options) = Some("all")
       THEN accOut[1].fieldErrors = Some(F)
       ELSE accOut[1].fieldErrors = Some([f \in nonEmpty |-> F[f][1][1]])

====
